---- MODULE Spec2Model ----
(***************************************************************************)
(* Question-paper ingestion and retrieval pipeline.                        *)
(*                                                                         *)
(*   pdf_processor.py    process_single_pdf and its stages (OCR, model     *)
(*                       call, year fallback, blob upload, row insert)     *)
(*   stream_lit.py       the upload loop that calls process_single_pdf     *)
(*   query_processor.py  extract_metadata_from_query, build_sql_query,     *)
(*                       process_user_query                                *)
(*   only_ocr_llm.py     the stand-alone OCR + model script                *)
(*                                                                         *)
(* Python strings that the code inspects are sequences of one-character    *)
(* strings; Python values are tagged records, dicts are functions from     *)
(* key names to values.                                                    *)
(***************************************************************************)
EXTENDS Integers, Sequences, FiniteSets, TLC

VARIABLES
    env,        \* module-level configuration read at import time
    files,      \* the batch handed to the upload loop: <<[name, doc], ...>>
    idx,        \* index in files of the file being / last processed
    pc,         \* position inside process_single_pdf ("idle" between calls)
    raw_text,   \* local raw_text
    top_text,   \* local top_text
    metadata,   \* local metadata (the dict the stages mutate)
    llm_meta,   \* the dict extract_metadata_with_groq_llama3 returned
    strg_path,  \* local strg_path
    file_url,   \* local file_url
    calls,      \* external calls issued by the current request, in order
    results,    \* what process_single_pdf returned, per file
    uuid_seq,   \* number of identifiers uuid4 has handed out
    blobs,      \* storage bucket: keys that hold an object
    uploads,    \* [req, url]: the bucket stored the object and handed out url
    rows,       \* metadata.metadata table, in insertion order
    fn_in,      \* argument of the function applied on its own
    fn_out      \* its result

vars == <<env, files, idx, pc, raw_text, top_text, metadata, llm_meta, strg_path,
          file_url, calls, results, uuid_seq, blobs, uploads, rows, fn_in, fn_out>>

pipeVars == <<env, files, idx, pc, raw_text, top_text, metadata, llm_meta, strg_path,
              file_url, calls, results, uuid_seq, blobs, uploads, rows>>

-----------------------------------------------------------------------------
(* Bounds of the model *)

\* longest document text, in chunks of TextChunks
MaxChunks == 4
\* pdf_processor.TOP_N_CHARACTERS, scaled from 600 to the size of the texts
TOP_N_CHARACTERS == 9
\* longest batch of the multi-file specification
MaxFiles == 2

-----------------------------------------------------------------------------
(* Python values *)

None == [t |-> "None"]
PyInt(n) == [t |-> "int", n |-> n]
PyStr(s) == [t |-> "str", s |-> s]
PyBool(b) == [t |-> "bool", b |-> b]
\* a float with integral part whole and a non-zero fraction
PyFloat(whole) == [t |-> "float", whole |-> whole]
PyList(l) == [t |-> "list", l |-> l]

EmptyDict == [k \in {} |-> None]
Get(d, k) == IF k \in DOMAIN d THEN d[k] ELSE None
Put(d, k, v) == [x \in (DOMAIN d) \cup {k} |-> IF x = k THEN v ELSE d[x]]

\* isinstance(v, int): bool is a subclass of int
IsInstanceInt(v) == v.t \in {"int", "bool"}
IsInstanceStr(v) == v.t = "str"

\* bool(v)
Truthy(v) ==
    CASE v.t = "None" -> FALSE
      [] v.t = "int" -> v.n # 0
      [] v.t = "str" -> Len(v.s) > 0
      [] v.t = "bool" -> v.b
      [] v.t = "float" -> TRUE
      [] v.t = "list" -> Len(v.l) > 0
      [] OTHER -> TRUE

-----------------------------------------------------------------------------
(* Characters and strings *)

Digits == {"0", "1", "2", "3", "4", "5", "6", "7", "8", "9"}
Whitespace == {" ", "\n", "\t"}
\* \w of the re module for the characters used here
WordChars == Digits \cup {"a", "b", "c", "_"}

DigitVal(c) ==
    CASE c = "0" -> 0 [] c = "1" -> 1 [] c = "2" -> 2 [] c = "3" -> 3
      [] c = "4" -> 4 [] c = "5" -> 5 [] c = "6" -> 6 [] c = "7" -> 7
      [] c = "8" -> 8 [] c = "9" -> 9

RECURSIVE DigitsValue(_)
DigitsValue(s) ==
    IF s = <<>> THEN 0
    ELSE 10 * DigitsValue(SubSeq(s, 1, Len(s) - 1)) + DigitVal(s[Len(s)])

RECURSIVE LStrip(_)
LStrip(s) == IF s # <<>> /\ Head(s) \in Whitespace THEN LStrip(Tail(s)) ELSE s

RECURSIVE RStrip(_)
RStrip(s) ==
    IF s # <<>> /\ s[Len(s)] \in Whitespace THEN RStrip(SubSeq(s, 1, Len(s) - 1)) ELSE s

\* str.strip()
Strip(s) == RStrip(LStrip(s))

\* variant: s[:n + 1]
Slice_one_more(s, n) == SubSeq(s, 1, IF Len(s) < n + 1 THEN Len(s) ELSE n + 1)

\* s[:n]
Slice(s, n) == SubSeq(s, 1, IF Len(s) < n THEN Len(s) ELSE n)

\* int(s) for a str: surrounding whitespace is dropped, one optional sign,
\* then decimal digits only; anything else is a ValueError
IntOfStr(s) ==
    LET body == Strip(s)
        signed == body # <<>> /\ Head(body) \in {"+", "-"}
        digits == IF signed THEN Tail(body) ELSE body
    IN  IF digits # <<>> /\ \A i \in 1..Len(digits) : digits[i] \in Digits
        THEN [ok |-> TRUE,
              n |-> IF signed /\ Head(body) = "-" THEN 0 - DigitsValue(digits)
                    ELSE DigitsValue(digits)]
        ELSE [ok |-> FALSE, exc |-> "ValueError"]

\* int(v) for any value
IntOf(v) ==
    CASE v.t = "int" -> [ok |-> TRUE, n |-> v.n]
      [] v.t = "bool" -> [ok |-> TRUE, n |-> IF v.b THEN 1 ELSE 0]
      [] v.t = "float" -> [ok |-> TRUE, n |-> v.whole]
      [] v.t = "str" -> IntOfStr(v.s)
      [] OTHER -> [ok |-> FALSE, exc |-> "TypeError"]

-----------------------------------------------------------------------------
(* re.search(r"\b(20\d{2})\b", text) *)

IsWordAt(s, i) == i >= 1 /\ i <= Len(s) /\ s[i] \in WordChars

\* \b between s[i-1] and s[i]
WordBoundary(s, i) == IsWordAt(s, i - 1) # IsWordAt(s, i)

\* the pattern matches with its first character at position i
YearMatchAt(s, i) ==
    /\ i + 3 <= Len(s)
    /\ WordBoundary(s, i)
    /\ s[i] = "2"
    /\ s[i + 1] = "0"
    /\ s[i + 2] \in Digits
    /\ s[i + 3] \in Digits
    /\ WordBoundary(s, i + 4)

\* the scan tries each start position from the left; 0 stands for no match
\* variant: the scan keeps going and reports the last match
RECURSIVE YearSearchFrom_last(_, _)
YearSearchFrom_last(s, i) ==
    IF i > Len(s) THEN 0
    ELSE LET later == YearSearchFrom_last(s, i + 1) IN
         IF later # 0 THEN later ELSE IF YearMatchAt(s, i) THEN i ELSE 0

RECURSIVE YearSearchFrom(_, _)
YearSearchFrom(s, i) ==
    IF i > Len(s) THEN 0
    ELSE IF YearMatchAt(s, i) THEN i
    ELSE YearSearchFrom(s, i + 1)

YearSearch(s) == YearSearchFrom(s, 1)

\* year_match.group(1)
YearGroup(s, i) == SubSeq(s, i, i + 3)

-----------------------------------------------------------------------------
(* Results and exceptions of a Python call *)

Ok(v) == [raised |-> FALSE, value |-> v]
Raise(e) == [raised |-> TRUE, exc |-> e]

\* the classes an except clause naming cls catches
Subclasses(cls) ==
    CASE cls = "Exception" ->
            {"Exception", "ConnectionError", "Timeout", "HTTPError", "JSONDecodeError",
             "KeyError", "IndexError", "TypeError", "AttributeError", "ValueError",
             "NameError", "OperationalError", "DatabaseError", "StorageException",
             "APIError", "SupabaseException", "PDFPageCountError", "TesseractError",
             "cv2.error"}
      [] cls = "RequestException" ->
            {"RequestException", "ConnectionError", "Timeout", "HTTPError"}
      [] cls = "ValueError" -> {"ValueError", "JSONDecodeError"}
      [] OTHER -> {cls}

Catches(cls, e) == e.type \in Subclasses(cls)

-----------------------------------------------------------------------------
(* The chat-completions endpoint as the code sees it *)

Str_cse == <<"c", "s", "e">>
Str_algorithms == <<"a", "l", "g", "o", "r", "i", "t", "h", "m", "s">>
Str_2019 == <<"2", "0", "1", "9">>
Str_abc == <<"a", "b", "c">>

DepartmentValues == {None, PyStr(Str_cse)}
SubjectValues == {None, PyStr(Str_algorithms)}
\* what a model may put under "year"
YearValues ==
    {None, PyInt(2023), PyInt(5), PyStr(Str_2019), PyStr(Str_abc),
     PyFloat(2021), PyBool(TRUE), PyList(<<>>)}

MetadataKeys == {"department", "subject", "year"}

JsonObjectsOver(keys) ==
    {d \in [keys -> DepartmentValues \cup SubjectValues \cup YearValues] :
        /\ "department" \in keys => d["department"] \in DepartmentValues
        /\ "subject" \in keys => d["subject"] \in SubjectValues
        /\ "year" \in keys => d["year"] \in YearValues}

\* JSON objects with any subset of the three keys
JsonObjects == UNION {JsonObjectsOver(keys) : keys \in SUBSET MetadataKeys}

\* message.content: missing (null), text that is not JSON, or JSON text of a value
LlmContents ==
    {[c |-> "null"], [c |-> "malformed"]}
    \cup {[c |-> "json", value |-> v] :
            v \in {None, PyInt(7), PyStr(Str_abc), PyList(<<>>)}}
    \cup {[c |-> "json", value |-> [t |-> "dict", d |-> d]] : d \in JsonObjects}

\* one behaviour of the endpoint per call
LlmResponses ==
    {[k |-> "transport"], [k |-> "timeout"], [k |-> "body_not_json"], [k |-> "missing_keys"]}
    \cup {[k |-> "http_error", json_body |-> b] : b \in BOOLEAN}
    \cup {[k |-> "content", content |-> c] : c \in LlmContents}

\* json.loads(message_content)
JsonLoads(content) ==
    CASE content.c = "null" -> Raise([type |-> "TypeError"])
      [] content.c = "malformed" -> Raise([type |-> "JSONDecodeError"])
      [] OTHER -> Ok(content.value)

\* pdf_processor.py 147-148 on a value that may not be a dict: `key not in m`
\* and `m[key] = None` raise for everything but a dict
DefaultKey(m, key) ==
    IF m.t = "dict"
    THEN Ok([t |-> "dict", d |-> IF key \in DOMAIN m.d THEN m.d ELSE Put(m.d, key, None)])
    ELSE Raise([type |-> "TypeError"])

\* pdf_processor.py 150-157
CoerceYear(d) ==
    LET llm_year == Get(d, "year") IN
    IF IsInstanceStr(llm_year)
    THEN LET parsed == IntOfStr(llm_year.s) IN
         IF parsed.ok THEN Put(d, "year", PyInt(parsed.n)) ELSE Put(d, "year", None)
    ELSE IF ~IsInstanceInt(llm_year) THEN Put(d, "year", None)
    ELSE d

\* pdf_processor.py 147-159
StandardizeMetadata(m) ==
    LET m1 == DefaultKey(m, "department") IN
    IF m1.raised THEN m1
    ELSE LET m2 == DefaultKey(m1.value, "subject") IN
         IF m2.raised THEN m2
         ELSE Ok(CoerceYear(m2.value.d))

\* the try body, pdf_processor.py 140-159
GroqTryBody(resp) ==
    CASE resp.k = "transport" -> Raise([type |-> "ConnectionError"])
      [] resp.k = "timeout" -> Raise([type |-> "Timeout"])
      [] resp.k = "http_error" -> Raise([type |-> "HTTPError", response |-> resp])
      [] resp.k = "body_not_json" -> Raise([type |-> "JSONDecodeError"])
      [] resp.k = "missing_keys" -> Raise([type |-> "KeyError"])
      [] OTHER ->
            LET loaded == JsonLoads(resp.content) IN
            IF loaded.raised THEN loaded ELSE StandardizeMetadata(loaded.value)

\* variant: the except clause names requests.RequestException only
GroqHandlerClass_requests_only == "RequestException"

\* the except clause of extract_metadata_with_groq_llama3
GroqHandlerClass == "Exception"

\* pdf_processor.py 161-166
GroqErrorResult(filename, e) ==
    LET error_details ==
            IF "response" \in DOMAIN e
            THEN IF e.response.json_body THEN "response.json()" ELSE "response.text"
            ELSE e.type
    IN  [filename |-> filename, error |-> [text |-> "LLM Error: ", details |-> error_details]]

\* extract_metadata_with_groq_llama3(text, filename) when the endpoint behaves as resp
extract_metadata_with_groq_llama3(text, filename, resp) ==
    LET r == GroqTryBody(resp) IN
    IF r.raised /\ Catches(GroqHandlerClass, r.exc)
    THEN Ok(GroqErrorResult(filename, r.exc))
    ELSE r

-----------------------------------------------------------------------------
(* Inputs: documents, file names, endpoint behaviours *)

\* pieces the page texts are built from
TextChunks == {<<"2", "0", "2", "2">>, <<"2", "0", "2", "0">>, <<" ">>, <<"a">>}

RECURSIVE TextsUpTo(_)
TextsUpTo(n) ==
    IF n = 0 THEN {<<>>}
    ELSE LET shorter == TextsUpTo(n - 1) IN
         shorter \cup {t \o c : t \in shorter, c \in TextChunks}

\* text of the first page of a document, as the OCR engine reads it
DocTexts == TextsUpTo(MaxChunks)

\* documents of the multi-file batches
BatchTexts == {<<"a", " ", "2", "0", "2", "2">>, <<"a">>, <<" ">>}

Name_q_PDF == <<"q", ".", "P", "D", "F">>
Name_q == <<"q">>
FileNames == {Name_q_PDF, Name_q}

\* what the endpoint stand-in of a batch run may answer
BatchResponses ==
    {[k |-> "transport"],
     [k |-> "content", content |-> [c |-> "json", value |->
        [t |-> "dict", d |-> [department |-> PyStr(Str_cse), year |-> None]]]],
     [k |-> "content", content |-> [c |-> "json", value |->
        [t |-> "dict", d |-> [subject |-> PyStr(Str_algorithms), year |-> PyInt(2023)]]]]}

-----------------------------------------------------------------------------
(* pdf_processor.py: the stages of process_single_pdf *)

Lower(c) ==
    CASE c = "P" -> "p" [] c = "D" -> "d" [] c = "F" -> "f" [] OTHER -> c

\* position of the last "." that is not the first character, 0 when there is none
RECURSIVE LastDot(_, _)
LastDot(name, i) ==
    IF i <= 1 THEN 0 ELSE IF name[i] = "." THEN i ELSE LastDot(name, i - 1)

\* os.path.splitext(name)[1].lower(), ".pdf" when empty (lines 227-228)
FileExtension(name) ==
    LET dot == LastDot(name, Len(name))
        ext == IF dot = 0 THEN <<>> ELSE SubSeq(name, dot, Len(name))
        lowered == [i \in 1..Len(ext) |-> Lower(ext[i])]
    IN  IF lowered = <<>> THEN <<".", "p", "d", "f">> ELSE lowered

\* variant: the key is built from the file name alone
StoragePath_by_name(unique_id, name) == [id |-> name, ext |-> FileExtension(name)]

\* f"{unique_id}{file_extension}" (line 229)
StoragePath(unique_id, name) == [id |-> unique_id, ext |-> FileExtension(name)]

\* outcomes of the renderer and the OCR engine inside extract_text_from_bytes
OcrOutcomes == {"ok", "convert_raises", "no_images", "preprocess_raises", "ocr_raises"}

\* extract_text_from_bytes (lines 37-50): doc is the text on the first page
extract_text_from_bytes(doc, outcome) ==
    LET body ==
            CASE outcome = "convert_raises" -> Raise([type |-> "PDFPageCountError"])
              [] outcome = "no_images" -> Ok(<<>>)
              [] outcome = "preprocess_raises" -> Raise([type |-> "cv2.error"])
              [] outcome = "ocr_raises" -> Raise([type |-> "TesseractError"])
              [] OTHER -> Ok(doc)
    IN  IF body.raised /\ Catches("Exception", body.exc) THEN Ok(<<>>) ELSE body

\* variant: the check without the strip() test
NoText_empty_only(text) == text = <<>>

\* `not raw_text or not raw_text.strip()` (line 233)
NoText(text) == text = <<>> \/ Strip(text) = <<>>

\* variant: the regex result is written whenever the pattern matches
YearFallback_regex_wins(m, text) ==
    LET year_match == YearSearch(text) IN
    IF year_match # 0
    THEN Put(m, "year", PyInt(IntOfStr(YearGroup(text, year_match)).n))
    ELSE m

\* lines 246-257
YearFallback(m, text) ==
    IF Get(m, "year") = None
    THEN LET year_match == YearSearch(text) IN
         IF year_match # 0
         THEN Put(m, "year", PyInt(IntOfStr(YearGroup(text, year_match)).n))
         ELSE m
    ELSE m

\* the str get_public_url returns for a stored path
PublicUrl(path) == PyStr(<<"questionpapers/", path>>)

\* outcomes of the two storage calls inside supabase_bucket
UploadOutcomes == {"ok", "upload_raises", "url_raises", "empty_url"}

\* supabase_bucket (lines 168-185): the value returned and whether the object was stored
supabase_bucket(client, path, outcome) ==
    IF ~client THEN [url |-> None, stored |-> FALSE, calls |-> <<>>]
    ELSE CASE outcome = "upload_raises" ->
                [url |-> None, stored |-> FALSE, calls |-> <<"upload">>]
           [] outcome = "url_raises" ->
                [url |-> None, stored |-> TRUE, calls |-> <<"upload", "get_public_url">>]
           [] outcome = "empty_url" ->
                [url |-> PyStr(<<>>), stored |-> TRUE, calls |-> <<"upload", "get_public_url">>]
           [] OTHER ->
                [url |-> PublicUrl(path), stored |-> TRUE,
                 calls |-> <<"upload", "get_public_url">>]

\* variant: `file_url is None`
NoUrl_is_None(url) == url = None

\* `not file_url` (line 262)
NoUrl(url) == ~Truthy(url)

\* variant: db_data without the file_url of the metadata
DbData_no_file_url(m) ==
    [department |-> Get(m, "department"), subject |-> Get(m, "subject"),
     year |-> Get(m, "year"), file_url |-> None]

\* db_data of insert_metadata_into_db (lines 194-199)
DbData(m) ==
    [department |-> Get(m, "department"), subject |-> Get(m, "subject"),
     year |-> Get(m, "year"), file_url |-> Get(m, "file_url")]

InsertOutcomes == {"ok", "raises"}

\* variant: the except clause returns True
insert_metadata_into_db_failure_hidden(client, m, outcome) ==
    IF ~client THEN [ok |-> FALSE, written |-> <<>>, calls |-> <<>>]
    ELSE IF outcome = "raises" THEN [ok |-> TRUE, written |-> <<>>, calls |-> <<"insert">>]
    ELSE [ok |-> TRUE, written |-> <<DbData(m)>>, calls |-> <<"insert">>]

\* variant: the insert is executed a second time
insert_metadata_into_db_twice(client, m, outcome) ==
    IF ~client THEN [ok |-> FALSE, written |-> <<>>, calls |-> <<>>]
    ELSE IF outcome = "raises" THEN [ok |-> FALSE, written |-> <<>>, calls |-> <<"insert">>]
    ELSE [ok |-> TRUE, written |-> <<DbData(m), DbData(m)>>, calls |-> <<"insert">>]

\* insert_metadata_into_db (lines 187-207): the value returned and the row written
insert_metadata_into_db(client, m, outcome) ==
    IF ~client THEN [ok |-> FALSE, written |-> <<>>, calls |-> <<>>]
    ELSE IF outcome = "raises" THEN [ok |-> FALSE, written |-> <<>>, calls |-> <<"insert">>]
    ELSE [ok |-> TRUE, written |-> <<DbData(m)>>, calls |-> <<"insert">>]

\* the dicts process_single_pdf returns
ErrorResult(filename, message) ==
    [filename |-> filename, status |-> "Error", message |-> message]
ErrorResultWith(filename, message, m, text) ==
    [filename |-> filename, status |-> "Error", message |-> message,
     metadata |-> m, raw_text |-> text]
SuccessResult(filename, m, text) ==
    [filename |-> filename, status |-> "Success", metadata |-> m, raw_text |-> text]

-----------------------------------------------------------------------------
(* process_single_pdf, one action per stage, driven by the upload loop *)

NoLocals ==
    /\ raw_text' = <<>>
    /\ top_text' = <<>>
    /\ metadata' = EmptyDict
    /\ llm_meta' = EmptyDict
    /\ file_url' = None
    /\ calls' = <<>>

Return(result) ==
    /\ results' = Append(results, result)
    /\ pc' = "idle"

\* variant: the loop body keeps reading the first uploaded file
CurrentFile_first == files[1]

CurrentFile == files[idx]

\* stream_lit.py 46-55 and pdf_processor.py 213-229: the loop takes the next file
\* and process_single_pdf builds its client and its storage key
StartRequest ==
    /\ pc = "idle"
    /\ idx < Len(files)
    /\ idx' = idx + 1
    /\ NoLocals
    /\ UNCHANGED <<env, files, blobs, uploads, rows, fn_in, fn_out>>
    /\ LET filename == files[idx + 1].name IN
       IF ~env.supabase_URL \/ ~env.supabase_key
       THEN /\ Return(ErrorResult(filename, [text |-> "Server-side error: .env variables not loaded."]))
            /\ UNCHANGED <<strg_path, uuid_seq>>
       ELSE \E create_client_ok \in BOOLEAN :
                IF ~create_client_ok
                THEN /\ Return(ErrorResult(filename, [text |-> "Failed to initialize Supabase client: "]))
                     /\ UNCHANGED <<strg_path, uuid_seq>>
                ELSE /\ uuid_seq' = uuid_seq + 1
                     /\ strg_path' = StoragePath(uuid_seq + 1, filename)
                     /\ pc' = "ocr"
                     /\ UNCHANGED results

\* lines 232-237
ExtractText ==
    /\ pc = "ocr"
    /\ \E outcome \in env.ocr :
        LET r == extract_text_from_bytes(CurrentFile.doc, outcome) IN
        /\ calls' = Append(calls, "ocr")
        /\ IF r.raised
           THEN /\ pc' = "raised"
                /\ UNCHANGED <<raw_text, top_text, results>>
           ELSE IF NoText(r.value)
           THEN /\ Return(ErrorResult(CurrentFile.name, [text |-> "No text extracted from PDF."]))
                /\ raw_text' = r.value
                /\ UNCHANGED top_text
           ELSE /\ raw_text' = r.value
                /\ top_text' = Slice(r.value, TOP_N_CHARACTERS)
                /\ pc' = "llm"
                /\ UNCHANGED results
    /\ UNCHANGED <<env, files, idx, metadata, llm_meta, strg_path, file_url, uuid_seq,
                   blobs, uploads, rows, fn_in, fn_out>>

\* lines 240-242
ExtractMetadata ==
    /\ pc = "llm"
    /\ \E resp \in env.responses :
        LET r == extract_metadata_with_groq_llama3(top_text, CurrentFile.name, resp) IN
        /\ calls' = Append(calls, "llm")
        /\ IF r.raised
           THEN /\ pc' = "raised"
                /\ UNCHANGED <<metadata, llm_meta, results>>
           ELSE IF "error" \in DOMAIN r.value
           THEN /\ Return(ErrorResult(CurrentFile.name, r.value["error"]))
                /\ metadata' = r.value
                /\ llm_meta' = r.value
           ELSE /\ metadata' = r.value
                /\ llm_meta' = r.value
                /\ pc' = "fallback"
                /\ UNCHANGED results
    /\ UNCHANGED <<env, files, idx, raw_text, top_text, strg_path, file_url, uuid_seq,
                   blobs, uploads, rows, fn_in, fn_out>>

\* variant: the fallback scans raw_text, as the script only_ocr_llm.py does
ApplyYearFallback_raw_text ==
    /\ pc = "fallback"
    /\ metadata' = YearFallback(metadata, raw_text)
    /\ pc' = "upload"
    /\ UNCHANGED <<env, files, idx, raw_text, top_text, llm_meta, strg_path, file_url,
                   calls, results, uuid_seq, blobs, uploads, rows, fn_in, fn_out>>

\* lines 246-257
ApplyYearFallback ==
    /\ pc = "fallback"
    /\ metadata' = YearFallback(metadata, top_text)
    /\ pc' = "upload"
    /\ UNCHANGED <<env, files, idx, raw_text, top_text, llm_meta, strg_path, file_url,
                   calls, results, uuid_seq, blobs, uploads, rows, fn_in, fn_out>>

\* lines 261-265
Upload ==
    /\ pc = "upload"
    /\ \E outcome \in UploadOutcomes :
        LET r == supabase_bucket(TRUE, strg_path, outcome) IN
        /\ calls' = calls \o r.calls
        /\ blobs' = IF r.stored THEN blobs \cup {strg_path} ELSE blobs
        /\ uploads' = IF r.stored /\ r.url # None
                      THEN uploads \cup {[req |-> idx, url |-> r.url]}
                      ELSE uploads
        /\ file_url' = r.url
        /\ IF NoUrl(r.url)
           THEN /\ Return(ErrorResultWith(CurrentFile.name,
                            [text |-> "Failed to upload file to Supabase storage."],
                            metadata, top_text))
                /\ UNCHANGED metadata
           ELSE /\ metadata' = Put(metadata, "file_url", r.url)
                /\ pc' = "insert"
                /\ UNCHANGED results
    /\ UNCHANGED <<env, files, idx, raw_text, top_text, llm_meta, strg_path, uuid_seq,
                   rows, fn_in, fn_out>>

\* lines 268-273
Insert ==
    /\ pc = "insert"
    /\ \E outcome \in InsertOutcomes :
        LET r == insert_metadata_into_db(TRUE, metadata, outcome) IN
        /\ calls' = calls \o r.calls
        /\ rows' = rows \o [i \in 1..Len(r.written) |-> [req |-> idx, data |-> r.written[i]]]
        /\ IF r.ok
           THEN Return(SuccessResult(CurrentFile.name, metadata, top_text))
           ELSE Return(ErrorResultWith(CurrentFile.name,
                            [text |-> "Failed to insert metadata into Supabase database."],
                            metadata, top_text))
    /\ UNCHANGED <<env, files, idx, raw_text, top_text, metadata, llm_meta, strg_path,
                   file_url, uuid_seq, blobs, uploads, fn_in, fn_out>>

Next ==
    \/ StartRequest
    \/ ExtractText
    \/ ExtractMetadata
    \/ ApplyYearFallback
    \/ Upload
    \/ Insert

InitStores ==
    /\ idx = 0
    /\ pc = "idle"
    /\ raw_text = <<>>
    /\ top_text = <<>>
    /\ metadata = EmptyDict
    /\ llm_meta = EmptyDict
    /\ strg_path = None
    /\ file_url = None
    /\ calls = <<>>
    /\ results = <<>>
    /\ uuid_seq = 0
    /\ blobs = {}
    /\ uploads = {}
    /\ rows = <<>>

\* one file of any text, any endpoint behaviour
Init ==
    /\ InitStores
    /\ fn_in = None
    /\ fn_out = None
    /\ \E u, k \in BOOLEAN :
        env = [supabase_URL |-> u, supabase_key |-> k, db_password |-> TRUE,
               responses |-> LlmResponses, ocr |-> OcrOutcomes]
    /\ \E name \in FileNames, doc \in DocTexts : files = <<[name |-> name, doc |-> doc]>>

Spec == Init /\ [][Next]_vars

\* a batch of up to MaxFiles files against a small endpoint stand-in
InitBatch ==
    /\ InitStores
    /\ fn_in = None
    /\ fn_out = None
    /\ env = [supabase_URL |-> TRUE, supabase_key |-> TRUE, db_password |-> TRUE,
              responses |-> BatchResponses, ocr |-> OcrOutcomes]
    /\ \E n \in 1..MaxFiles :
        files \in [1..n -> [name : FileNames, doc : BatchTexts]]

SpecBatch == InitBatch /\ [][Next]_vars

\* one file against an endpoint stand-in that always behaves as fn_in
InitStandIn ==
    /\ InitStores
    /\ fn_out = None
    /\ \E resp \in LlmResponses :
        /\ fn_in = resp
        /\ env = [supabase_URL |-> TRUE, supabase_key |-> TRUE, db_password |-> TRUE,
                  responses |-> {resp}, ocr |-> OcrOutcomes]
    /\ \E name \in FileNames, doc \in BatchTexts : files = <<[name |-> name, doc |-> doc]>>

SpecStandIn == InitStandIn /\ [][Next]_vars

Name_q_a_Fd == <<"q", ".", "a", ".", "F", "d">>
RepeatNames == FileNames \cup {Name_q_a_Fd}

\* variant: the endpoint stand-in may also fail in transport at any call
InitRepeat_flaky_endpoint ==
    /\ InitStores
    /\ fn_out = None
    /\ \E resp \in LlmResponses, outcome \in OcrOutcomes :
        /\ fn_in = resp
        /\ env = [supabase_URL |-> TRUE, supabase_key |-> TRUE, db_password |-> TRUE,
                  responses |-> {resp, [k |-> "transport"]}, ocr |-> {outcome}]
    /\ \E name1, name2 \in RepeatNames, doc \in BatchTexts :
        files = <<[name |-> name1, doc |-> doc], [name |-> name2, doc |-> doc]>>

\* the same document processed twice, the OCR and the endpoint replaced by
\* stand-ins that behave the same way in both runs
InitRepeat ==
    /\ InitStores
    /\ fn_out = None
    /\ \E resp \in LlmResponses, outcome \in OcrOutcomes :
        /\ fn_in = resp
        /\ env = [supabase_URL |-> TRUE, supabase_key |-> TRUE, db_password |-> TRUE,
                  responses |-> {resp}, ocr |-> {outcome}]
    /\ \E name1, name2 \in RepeatNames, doc \in BatchTexts :
        files = <<[name |-> name1, doc |-> doc], [name |-> name2, doc |-> doc]>>

SpecRepeat == InitRepeat /\ [][Next]_vars

\* n times the letter a
Filler(n) == [i \in 1..n |-> "a"]

Str_2022 == <<"2", "0", "2", "2">>
Str_2020 == <<"2", "0", "2", "0">>

\* page texts longer than TOP_N_CHARACTERS, with year tokens placed around the
\* place where line 237 cuts: inside the prefix, entirely beyond it, across
\* the cut, and a longer digit run of which the cut leaves four digits
CutTexts ==
    {Str_2022 \o <<" ">> \o Filler(TOP_N_CHARACTERS) \o <<" ">> \o Str_2020,
     Filler(TOP_N_CHARACTERS) \o <<" ">> \o Str_2020,
     Filler(TOP_N_CHARACTERS - 3) \o <<" ">> \o Str_2022 \o <<" ">> \o Str_2020,
     Filler(TOP_N_CHARACTERS - 5) \o <<" ">> \o Str_2022 \o <<"3", " ">> \o Str_2020,
     Filler(TOP_N_CHARACTERS - 5) \o <<" ">> \o Str_2022 \o <<"3">>,
     Filler(TOP_N_CHARACTERS + 1)}

\* one file whose text is longer than the prefix handed on
InitCut ==
    /\ InitStores
    /\ fn_in = None
    /\ fn_out = None
    /\ env = [supabase_URL |-> TRUE, supabase_key |-> TRUE, db_password |-> TRUE,
              responses |-> BatchResponses, ocr |-> OcrOutcomes]
    /\ \E name \in FileNames, doc \in CutTexts : files = <<[name |-> name, doc |-> doc]>>

SpecCut == InitCut /\ [][Next]_vars

-----------------------------------------------------------------------------
(* query_processor.py *)

\* the names bound at module level of query_processor.py (lines 1-21 and the defs)
QueryProcessorGlobals ==
    {"requests", "json", "psycopg2", "os", "load_dotenv", "GROQ_API_KEY", "GROQ_API_URL",
     "DB_PARAMS", "extract_metadata_from_query", "build_sql_query", "run_query",
     "process_user_query"}

\* evaluating a global name inside a function of query_processor.py
GlobalName(name) ==
    IF name \in QueryProcessorGlobals THEN Ok(name)
    ELSE Raise([type |-> "NameError", name |-> name])

\* behaviours of the generate endpoint: the body is JSON whose "response" member
\* holds the model's text
QueryResponses ==
    {[k |-> "transport"], [k |-> "timeout"], [k |-> "http_error", json_body |-> FALSE],
     [k |-> "body_not_json"], [k |-> "body_not_object"], [k |-> "no_response_key"]}
    \cup {[k |-> "content", content |-> c] : c \in LlmContents}

\* lines 100-102 on a value that may not be a dict
RECURSIVE DefaultKeys(_, _)
DefaultKeys(m, keys) ==
    IF keys = <<>> THEN Ok(m)
    ELSE LET m1 == DefaultKey(m, Head(keys)) IN
         IF m1.raised THEN m1 ELSE DefaultKeys(m1.value, Tail(keys))

\* the try body, lines 95-104
QueryTryBody(resp) ==
    LET url == GlobalName("OLLAMA_API_URL") IN
    IF url.raised THEN url
    ELSE CASE resp.k = "transport" -> Raise([type |-> "ConnectionError"])
           [] resp.k = "timeout" -> Raise([type |-> "Timeout"])
           [] resp.k = "http_error" -> Raise([type |-> "HTTPError", response |-> resp])
           [] resp.k = "body_not_json" -> Raise([type |-> "JSONDecodeError"])
           [] resp.k = "body_not_object" -> Raise([type |-> "AttributeError"])
           [] OTHER ->
                LET loaded == IF resp.k = "no_response_key"
                              THEN Ok([t |-> "dict", d |-> EmptyDict])
                              ELSE JsonLoads(resp.content)
                IN  IF loaded.raised THEN loaded
                    ELSE LET filled == DefaultKeys(loaded.value,
                                                   <<"department", "subject", "year">>)
                         IN  IF filled.raised THEN filled ELSE Ok(filled.value.d)

\* line 107
QueryErrorResult(e) ==
    [department |-> None, subject |-> None, year |-> None, error |-> [text |-> e.type]]

\* extract_metadata_from_query (lines 23-107) when the endpoint behaves as resp;
\* the payload dict of lines 87-92 is built before the try statement
extract_metadata_from_query(query_text, resp) ==
    LET model == GlobalName("LLM_MODEL") IN
    IF model.raised THEN model
    ELSE LET r == QueryTryBody(resp) IN
         IF r.raised /\ Catches("Exception", r.exc) THEN Ok(QueryErrorResult(r.exc)) ELSE r

\* variant: any value other than None counts as present
FieldPresent_not_None(v) == v # None

\* `if metadata.get(...)` (lines 116, 120, 124)
FieldPresent(v) == Truthy(v)

\* variant: the bounds themselves are accepted
YearInRange_inclusive(year_val) == 1900 <= year_val /\ year_val <= 2100

\* `1900 < year_val < 2100` (line 127)
YearInRange(year_val) == 1900 < year_val /\ year_val < 2100

BaseQuery == "SELECT department, subject, year, file_url FROM metadata.metadata WHERE 1=1"
OrderBy == " ORDER BY year DESC, department, subject;"

\* " AND ".join(conditions)
RECURSIVE JoinAnd(_)
JoinAnd(conditions) ==
    IF Len(conditions) <= 1 THEN conditions
    ELSE <<Head(conditions), " AND ">> \o JoinAnd(Tail(conditions))

\* f"%{value}%"
LikePattern(v) == PyStr(<<"%">> \o v.s \o <<"%">>)

\* `except (ValueError, TypeError)` (line 132)
YearHandlerClasses == {"ValueError", "TypeError"}

\* build_sql_query (lines 109-142): the query text in pieces, and the parameters
build_sql_query(m) ==
    LET dept == IF FieldPresent(Get(m, "department"))
                THEN [c |-> <<"department ILIKE %s">>, p |-> <<LikePattern(m["department"])>>]
                ELSE [c |-> <<>>, p |-> <<>>]
        subj == IF FieldPresent(Get(m, "subject"))
                THEN [c |-> <<"subject ILIKE %s">>, p |-> <<LikePattern(m["subject"])>>]
                ELSE [c |-> <<>>, p |-> <<>>]
        year_val == IntOf(Get(m, "year"))
        year == IF FieldPresent(Get(m, "year")) /\ year_val.ok /\ YearInRange(year_val.n)
                THEN [c |-> <<"year = %s">>, p |-> <<PyInt(year_val.n)>>]
                ELSE [c |-> <<>>, p |-> <<>>]
        conditions == dept.c \o subj.c \o year.c
        params == dept.p \o subj.p \o year.p
    IN  IF FieldPresent(Get(m, "year")) /\ ~year_val.ok
           /\ year_val.exc \notin YearHandlerClasses
        THEN Raise([type |-> year_val.exc])
        ELSE [raised |-> FALSE,
              sql |-> <<BaseQuery>>
                      \o (IF conditions # <<>> THEN <<" AND ">> \o JoinAnd(conditions)
                          ELSE <<>>)
                      \o <<OrderBy>>,
              params |-> params]

\* outcomes of the database driver inside run_query
DbOutcomes == {"ok", "connect_operational_error", "execute_operational_error",
               "execute_raises"}

\* variant: run_query without the password test of line 150
run_query_password_unchecked(sql_query, params, password, outcome, fetched) ==
    CASE outcome = "connect_operational_error" ->
            [value |-> <<[error |-> "Database connection failed"]>>,
             opened |-> 0, closed |-> 0]
      [] outcome = "execute_operational_error" ->
            [value |-> <<[error |-> "Database connection failed"]>>,
             opened |-> 1, closed |-> 1]
      [] outcome = "execute_raises" ->
            [value |-> <<[error |-> "Database query failed: "]>>,
             opened |-> 1, closed |-> 1]
      [] OTHER -> [value |-> fetched, opened |-> 1, closed |-> 1]

\* variant: run_query without its finally clause, conn.close() after the with block
run_query_close_on_success(sql_query, params, password, outcome, fetched) ==
    IF ~password
    THEN [value |-> <<[error |-> "Database configuration error (password missing)"]>>,
          opened |-> 0, closed |-> 0]
    ELSE CASE outcome = "connect_operational_error" ->
                [value |-> <<[error |-> "Database connection failed"]>>,
                 opened |-> 0, closed |-> 0]
           [] outcome = "execute_operational_error" ->
                [value |-> <<[error |-> "Database connection failed"]>>,
                 opened |-> 1, closed |-> 0]
           [] outcome = "execute_raises" ->
                [value |-> <<[error |-> "Database query failed: "]>>,
                 opened |-> 1, closed |-> 0]
           [] OTHER -> [value |-> fetched, opened |-> 1, closed |-> 1]

\* run_query (lines 144-170): the list returned and the connections opened and closed
run_query(sql_query, params, password, outcome, fetched) ==
    IF ~password
    THEN [value |-> <<[error |-> "Database configuration error (password missing)"]>>,
          opened |-> 0, closed |-> 0]
    ELSE CASE outcome = "connect_operational_error" ->
                [value |-> <<[error |-> "Database connection failed"]>>,
                 opened |-> 0, closed |-> 0]
           [] outcome = "execute_operational_error" ->
                [value |-> <<[error |-> "Database connection failed"]>>,
                 opened |-> 1, closed |-> 1]
           [] outcome = "execute_raises" ->
                [value |-> <<[error |-> "Database query failed: "]>>,
                 opened |-> 1, closed |-> 1]
           [] OTHER -> [value |-> fetched, opened |-> 1, closed |-> 1]

\* process_user_query (lines 172-189)
process_user_query(user_query, resp, password, outcome, fetched) ==
    LET extracted == extract_metadata_from_query(user_query, resp) IN
    IF extracted.raised THEN extracted
    ELSE IF "error" \in DOMAIN extracted.value
    THEN Ok([error |-> [text |-> "LLM failed: ", details |-> extracted.value["error"]],
             results |-> <<>>])
    ELSE LET built == build_sql_query(extracted.value)
             db == run_query(built.sql, built.params, password, outcome, fetched)
         IN  IF built.raised THEN built
             ELSE IF db.value # <<>> /\ "error" \in DOMAIN db.value[1]
             THEN Ok([metadata |-> extracted.value, sql |-> built.sql,
                      error |-> db.value[1]["error"], results |-> <<>>])
             ELSE Ok([metadata |-> extracted.value, sql |-> built.sql,
                      results |-> db.value])

Str_empty == <<>>
Str_2023 == <<"2", "0", "2", "3">>
Str_1900 == <<"1", "9", "0", "0">>

\* metadata dicts handed to build_sql_query
QueryFieldValues == {None, PyStr(Str_empty), PyStr(Str_cse), PyStr(Str_algorithms)}
QueryYearValues ==
    {None, PyInt(0), PyInt(1850), PyInt(1900), PyInt(1901), PyInt(2023), PyInt(2099),
     PyInt(2100), PyInt(2150), PyStr(Str_2023), PyStr(Str_1900), PyStr(Str_abc),
     PyStr(Str_empty), PyFloat(2023), PyList(<<None>>)}

QueryMetadataOver(keys) ==
    {d \in [keys -> QueryFieldValues \cup QueryYearValues] :
        /\ "department" \in keys => d["department"] \in QueryFieldValues
        /\ "subject" \in keys => d["subject"] \in QueryFieldValues
        /\ "year" \in keys => d["year"] \in QueryYearValues}

QueryMetadata == UNION {QueryMetadataOver(keys) : keys \in SUBSET MetadataKeys}

Str_query == <<"c", "s", "e", " ", "2", "0", "2", "3">>

\* rows a successful lookup may fetch
FetchedRows ==
    {<<>>,
     <<[department |-> PyStr(Str_cse), subject |-> None, year |-> PyInt(2023),
        file_url |-> PyStr(<<"questionpapers/">>)]>>}

\* the calls of run_query on its own, with the query of an empty metadata dict
RunQueryCalls ==
    {[fn |-> "run_query", sql_query |-> <<BaseQuery, OrderBy>>, params |-> <<>>,
      outcome |-> o, fetched |-> f] : o \in DbOutcomes, f \in FetchedRows}

\* the calls made on query_processor.py
QueryCalls ==
    {[fn |-> "build_sql_query", metadata |-> m] : m \in QueryMetadata}
    \cup RunQueryCalls
    \cup {[fn |-> "process_user_query", user_query |-> Str_query, resp |-> r,
           outcome |-> o, fetched |-> f] :
            r \in QueryResponses, o \in DbOutcomes, f \in FetchedRows}

BuildSqlQuery ==
    /\ fn_out = None
    /\ fn_in.fn = "build_sql_query"
    /\ fn_out' = build_sql_query(fn_in.metadata)
    /\ UNCHANGED <<pipeVars, fn_in>>

ProcessUserQuery ==
    /\ fn_out = None
    /\ fn_in.fn = "process_user_query"
    /\ fn_out' = process_user_query(fn_in.user_query, fn_in.resp, env.db_password,
                                    fn_in.outcome, fn_in.fetched)
    /\ UNCHANGED <<pipeVars, fn_in>>

RunQuery ==
    /\ fn_out = None
    /\ fn_in.fn = "run_query"
    /\ fn_out' = run_query(fn_in.sql_query, fn_in.params, env.db_password,
                            fn_in.outcome, fn_in.fetched)
    /\ UNCHANGED <<pipeVars, fn_in>>

NextQuery ==
    \/ BuildSqlQuery
    \/ ProcessUserQuery
    \/ RunQuery

InitQuery ==
    /\ InitStores
    /\ \E pw \in BOOLEAN :
        env = [supabase_URL |-> TRUE, supabase_key |-> TRUE, db_password |-> pw,
               responses |-> {}, ocr |-> {}]
    /\ files = <<>>
    /\ fn_in \in QueryCalls
    /\ fn_out = None

SpecQuery == InitQuery /\ [][NextQuery]_vars

\* stream_lit.py: the upload tab and the query tab of one application
NextRequests ==
    \/ Next
    \/ ("fn" \in DOMAIN fn_in /\ NextQuery)

InitRequests == InitBatch \/ InitQuery

SpecRequests == InitRequests /\ [][NextRequests]_vars

\* the query calls of a session that also uploads files
AppCalls ==
    {c \in RunQueryCalls : c.fetched # <<>>}
    \cup {[fn |-> "process_user_query", user_query |-> Str_query, resp |-> r,
           outcome |-> "ok", fetched |-> <<>>] : r \in BatchResponses}

\* one session of the application: an upload of up to MaxFiles files and one
\* query call, in any order, with each secret present or missing
InitApp ==
    /\ InitStores
    /\ \E u, k, pw \in BOOLEAN :
        env = [supabase_URL |-> u, supabase_key |-> k, db_password |-> pw,
               responses |-> BatchResponses, ocr |-> OcrOutcomes]
    /\ \E n \in 1..MaxFiles :
        files \in [1..n -> [name : {Name_q_PDF}, doc : BatchTexts]]
    /\ fn_in \in AppCalls
    /\ fn_out = None

SpecApp == InitApp /\ [][NextRequests]_vars

-----------------------------------------------------------------------------
(* only_ocr_llm.py, and the text extractors applied on their own *)

\* outcomes of the renderer, of cv2 and of the OCR engine inside
\* extract_text_with_tesseract
TesseractOutcomes ==
    {"ok", "convert_raises", "no_images", "preprocess_raises", "imwrite_raises",
     "ocr_raises"}

\* "\n\n--- Page Break ---\n\n".join(full_text)
RECURSIVE JoinPages(_)
JoinPages(full_text) ==
    IF full_text = <<>> THEN <<>>
    ELSE IF Len(full_text) = 1 THEN Head(full_text)
    ELSE Head(full_text) \o <<"\n", "\n", "--- Page Break ---", "\n", "\n">>
         \o JoinPages(Tail(full_text))

\* variant: the function without its try statement
extract_text_with_tesseract_unguarded(exists, doc, outcome) ==
    IF ~exists THEN Ok(<<>>)
    ELSE CASE outcome = "convert_raises" -> Raise([type |-> "PDFPageCountError"])
           [] outcome = "no_images" -> Ok(JoinPages(<<>>))
           [] outcome = "preprocess_raises" -> Raise([type |-> "cv2.error"])
           [] outcome = "imwrite_raises" -> Raise([type |-> "cv2.error"])
           [] outcome = "ocr_raises" -> Raise([type |-> "TesseractError"])
           [] OTHER -> Ok(JoinPages(IF doc # <<>> THEN <<doc>> ELSE <<>>))

\* extract_text_with_tesseract (only_ocr_llm.py 23-47): exists is
\* os.path.exists(pdf_path), doc the text on the one page that
\* convert_from_path(last_page=1) renders
extract_text_with_tesseract(exists, doc, outcome) ==
    IF ~exists THEN Ok(<<>>)
    ELSE LET body ==
                CASE outcome = "convert_raises" -> Raise([type |-> "PDFPageCountError"])
                  [] outcome = "no_images" -> Ok(JoinPages(<<>>))
                  [] outcome = "preprocess_raises" -> Raise([type |-> "cv2.error"])
                  [] outcome = "imwrite_raises" -> Raise([type |-> "cv2.error"])
                  [] outcome = "ocr_raises" -> Raise([type |-> "TesseractError"])
                  [] OTHER -> Ok(JoinPages(IF doc # <<>> THEN <<doc>> ELSE <<>>))
         IN  IF body.raised /\ Catches("Exception", body.exc) THEN Ok(<<>>) ELSE body

\* the calls made on the two text extractors
ExtractorCalls ==
    {[fn |-> "extract_text_from_bytes", doc |-> d, outcome |-> o] :
        d \in DocTexts, o \in OcrOutcomes}
    \cup {[fn |-> "extract_text_with_tesseract", exists |-> e, doc |-> d, outcome |-> o] :
            e \in BOOLEAN, d \in DocTexts, o \in TesseractOutcomes}

ExtractTextFromBytes ==
    /\ fn_out = None
    /\ fn_in.fn = "extract_text_from_bytes"
    /\ fn_out' = extract_text_from_bytes(fn_in.doc, fn_in.outcome)
    /\ UNCHANGED <<pipeVars, fn_in>>

ExtractTextWithTesseract ==
    /\ fn_out = None
    /\ fn_in.fn = "extract_text_with_tesseract"
    /\ fn_out' = extract_text_with_tesseract(fn_in.exists, fn_in.doc, fn_in.outcome)
    /\ UNCHANGED <<pipeVars, fn_in>>

NextExtractors ==
    \/ ExtractTextFromBytes
    \/ ExtractTextWithTesseract

InitExtractors ==
    /\ InitStores
    /\ env = [supabase_URL |-> TRUE, supabase_key |-> TRUE, db_password |-> TRUE,
              responses |-> {}, ocr |-> {}]
    /\ files = <<>>
    /\ fn_in \in ExtractorCalls
    /\ fn_out = None

SpecExtractors == InitExtractors /\ [][NextExtractors]_vars

-----------------------------------------------------------------------------
(* Vocabulary of the properties *)

Range(seq) == {seq[i] : i \in 1..Len(seq)}
IsPrefix(a, b) == Len(a) <= Len(b) /\ a = SubSeq(b, 1, Len(a))

\* process_single_pdf has returned for file idx
Returned == pc = "idle" /\ idx >= 1
LastResult == results[idx]
HasMetadata(result) == "metadata" \in DOMAIN result

\* the year fallback stage of the current request is over
FallbackDone == pc \in {"upload", "insert"} \/ (Returned /\ HasMetadata(LastResult))

\* a standalone token 20dd starts at position i of s
StandaloneYearAt(s, i) ==
    /\ i >= 1
    /\ i + 3 <= Len(s)
    /\ <<s[i], s[i + 1]>> = <<"2", "0">>
    /\ {s[i + 2], s[i + 3]} \subseteq Digits
    /\ (i = 1 \/ s[i - 1] \notin WordChars)
    /\ (i + 3 = Len(s) \/ s[i + 4] \notin WordChars)

YearTokens(s) == {i \in 1..Len(s) : StandaloneYearAt(s, i)}
FirstYearToken(s) == CHOOSE i \in YearTokens(s) : \A j \in YearTokens(s) : i <= j
TokenValue(s, i) == 2000 + 10 * DigitVal(s[i + 2]) + DigitVal(s[i + 3])

AllWhitespace(s) == \A i \in 1..Len(s) : s[i] \in Whitespace

StageCalls == <<"ocr", "llm", "upload", "get_public_url", "insert">>

UploadFailedText == "Failed to upload file to Supabase storage."

\* the endpoint behaviour resp is one of the failures of the metadata extractor
ModelFailed(resp) ==
    \/ resp.k # "content"
    \/ resp.content.c # "json"
    \/ resp.content.value.t # "dict"

\* the year the model's JSON object carries, None when it carries none
ModelYear(resp) ==
    IF ModelFailed(resp) THEN None ELSE Get(resp.content.value.d, "year")

\* the model year is an integer or a string that parses to one
CarriesYear(resp) ==
    LET y == ModelYear(resp) IN
    y.t = "int" \/ (y.t = "str" /\ IntOfStr(y.s).ok)

ModelYearInt(resp) ==
    LET y == ModelYear(resp) IN IF y.t = "int" THEN y.n ELSE IntOfStr(y.s).n

-----------------------------------------------------------------------------
(* C1 - upload before insert (SpecBatch): every row of the table carries a    *)
(* non-empty file_url that the bucket handed out for a stored object of the   *)
(* same request, and an insert call always directly follows the URL lookup    *)
(* of a successful upload of that request.                                    *)
C1_UploadBeforeInsert ==
    /\ \A i \in 1..Len(rows) :
        /\ Truthy(rows[i].data.file_url)
        /\ [req |-> rows[i].req, url |-> rows[i].data.file_url] \in uploads
    /\ \A i \in 1..Len(calls) :
        calls[i] = "insert" =>
            /\ i > 1
            /\ calls[i - 1] = "get_public_url"
            /\ \E u \in uploads : u.req = idx /\ Truthy(u.url) /\ u.url = file_url

\* a batch in which one file failed at the upload stage and another was inserted
C1_Witness ==
    /\ Returned
    /\ Len(rows) >= 1
    /\ \E i \in 1..Len(results) :
        /\ results[i].status = "Error"
        /\ HasMetadata(results[i])
        /\ results[i].message.text = UploadFailedText
        /\ \A r \in Range(rows) : r.req # i

(* C2 - the claim as stated (Spec): when the text handed on contains the      *)
(* standalone token 2022 first and the model call fails, the request ends     *)
(* with metadata whose year is 2022 and whose department and subject are      *)
(* unknown.                                                                   *)
C2_FallbackAfterModelFailure ==
    ( /\ Returned
      /\ "error" \in DOMAIN llm_meta
      /\ YearTokens(top_text) # {}
      /\ TokenValue(top_text, FirstYearToken(top_text)) = 2022 )
    => /\ HasMetadata(LastResult)
       /\ Get(LastResult.metadata, "year") = PyInt(2022)
       /\ Get(LastResult.metadata, "department") = None
       /\ Get(LastResult.metadata, "subject") = None

(* C3 - first-token fallback (Spec): once the fallback stage is over, a       *)
(* request whose model result has no year ends up with the value of the       *)
(* first standalone 20dd token of the text handed to the fallback, and with   *)
(* no year when that text has no such token.                                  *)
C3_FallbackTakesFirstToken ==
    (FallbackDone /\ Get(llm_meta, "year") = None) =>
        LET expected ==
                IF YearTokens(top_text) # {}
                THEN PyInt(TokenValue(top_text, FirstYearToken(top_text)))
                ELSE None
        IN  /\ Get(metadata, "year") = expected
            /\ Returned => Get(LastResult.metadata, "year") = expected
            /\ \A i \in 1..Len(rows) : rows[i].data.year = expected

\* the text holds two tokens of different value and the first one was stored
C3_Witness ==
    /\ Returned
    /\ LastResult.status = "Success"
    /\ Get(llm_meta, "year") = None
    /\ \E i, j \in YearTokens(top_text) :
        /\ i < j
        /\ TokenValue(top_text, i) # TokenValue(top_text, j)
        /\ rows[1].data.year = PyInt(TokenValue(top_text, i))

(* C4 - model year takes precedence (SpecStandIn): when the model's JSON      *)
(* object carries an integer year, or a string year that parses, the final    *)
(* metadata, the returned metadata and the inserted row carry that year,      *)
(* whatever tokens the text holds.                                            *)
C4_ModelYearKept ==
    (FallbackDone /\ CarriesYear(fn_in)) =>
        /\ Get(metadata, "year") = PyInt(ModelYearInt(fn_in))
        /\ Returned => Get(LastResult.metadata, "year") = PyInt(ModelYearInt(fn_in))
        /\ \A i \in 1..Len(rows) : rows[i].data.year = PyInt(ModelYearInt(fn_in))

\* a row was inserted with the model year although the text holds another token
C4_Witness ==
    /\ Returned
    /\ CarriesYear(fn_in)
    /\ YearTokens(top_text) # {}
    /\ TokenValue(top_text, FirstYearToken(top_text)) # ModelYearInt(fn_in)
    /\ Len(rows) = 1
    /\ rows[1].data.year = PyInt(ModelYearInt(fn_in))

(* C5 - extractor failures (SpecStandIn): the extractor never raises; every   *)
(* failing endpoint behaviour yields a dict with the key 'error'; and a       *)
(* request whose extractor result has that key ends right after the model     *)
(* call with status 'Error': no fallback, no upload, no insert.               *)
C5_ExtractorFailureIsMarked ==
    /\ pc # "raised"
    /\ ("llm" \in Range(calls) /\ ModelFailed(fn_in)) => "error" \in DOMAIN llm_meta
    /\ "error" \in DOMAIN llm_meta =>
        /\ Returned
        /\ LastResult.status = "Error"
        /\ calls = <<"ocr", "llm">>
        /\ metadata = llm_meta
        /\ blobs = {}
        /\ rows = <<>>

\* the model answered with JSON that is not an object and the request ended
C5_Witness ==
    /\ Returned
    /\ fn_in.k = "content"
    /\ fn_in.content.c = "json"
    /\ fn_in.content.value.t = "list"
    /\ "error" \in DOMAIN llm_meta
    /\ LastResult.status = "Error"

(* C6 - the claim as stated (SpecQuery): process_user_query, through          *)
(* extract_metadata_from_query, never raises: it returns a result dict for     *)
(* every query and every behaviour of the endpoint.                            *)
C6_QueryTranslatorNeverRaises ==
    ("fn" \in DOMAIN fn_in /\ fn_in.fn = "process_user_query" /\ fn_out # None) =>
        /\ ~fn_out.raised
        /\ "results" \in DOMAIN fn_out.value

\* build_sql_query has been applied to fn_in.metadata
BuiltQuery == "fn" \in DOMAIN fn_in /\ fn_in.fn = "build_sql_query" /\ fn_out # None

\* the field is in the dict, is not null and is not the empty string
NonEmptyField(m, k) == k \in DOMAIN m /\ m[k] # None /\ m[k] # PyStr(<<>>)

ConditionTexts == {"department ILIKE %s", "subject ILIKE %s", "year = %s"}

(* C7 - text conditions (SpecQuery): the built query holds the department      *)
(* (subject) ILIKE condition, with the parameter %value%, exactly when the     *)
(* department (subject) is present in the metadata; the conditions follow      *)
(* the base query joined by AND, one parameter each; with no field present     *)
(* the query is the base query and its ordering alone.                         *)
C7_TextConditions ==
    BuiltQuery =>
        LET m == fn_in.metadata
            sql == fn_out.sql
            params == fn_out.params
            has(c) == c \in Range(sql)
        IN  /\ ~fn_out.raised
            /\ has("department ILIKE %s") <=> NonEmptyField(m, "department")
            /\ has("subject ILIKE %s") <=> NonEmptyField(m, "subject")
            /\ NonEmptyField(m, "department") =>
                    params[1] = PyStr(<<"%">> \o m["department"].s \o <<"%">>)
            /\ NonEmptyField(m, "subject") =>
                    PyStr(<<"%">> \o m["subject"].s \o <<"%">>) \in Range(params)
            /\ (has("department ILIKE %s") /\ has("subject ILIKE %s")) =>
                    /\ sql[3] = "department ILIKE %s"
                    /\ sql[5] = "subject ILIKE %s"
                    /\ params[2] = PyStr(<<"%">> \o m["subject"].s \o <<"%">>)
            /\ sql[1] = BaseQuery
            /\ sql[Len(sql)] = OrderBy
            /\ \A i \in 2..(Len(sql) - 1) :
                    IF i % 2 = 0 THEN sql[i] = " AND " ELSE sql[i] \in ConditionTexts
            /\ Len(sql) % 2 = 0
            /\ Len(params) = (Len(sql) - 2) \div 2
            /\ (~has("department ILIKE %s") /\ ~has("subject ILIKE %s")
                /\ ~has("year = %s")) => (sql = <<BaseQuery, OrderBy>> /\ params = <<>>)
            /\ (\A k \in MetadataKeys : ~NonEmptyField(m, k)) => sql = <<BaseQuery, OrderBy>>

\* the example of the specification: no department, subject and year present
C7_Witness ==
    /\ BuiltQuery
    /\ fn_in.metadata = [department |-> None, subject |-> PyStr(Str_algorithms),
                         year |-> PyInt(2023)]
    /\ fn_out.sql = <<BaseQuery, " AND ", "subject ILIKE %s", " AND ", "year = %s", OrderBy>>
    /\ fn_out.params = <<PyStr(<<"%">> \o Str_algorithms \o <<"%">>), PyInt(2023)>>

(* C8 - year bound (SpecQuery): the built query holds the year equality        *)
(* condition, with the integer as its last parameter, exactly when the         *)
(* metadata year converts to an integer strictly between 1900 and 2100;        *)
(* 1850, 1900, 2100 and 2150 are dropped, 2023 and '2023' are kept, and a      *)
(* year that does not convert is dropped without an exception.                 *)
C8_YearBound ==
    BuiltQuery =>
        LET y == Get(fn_in.metadata, "year")
            conv == IntOf(y)
            kept == conv.ok /\ conv.n > 1900 /\ conv.n < 2100
            has_year == "year = %s" \in Range(fn_out.sql)
        IN  /\ ~fn_out.raised
            /\ has_year <=> kept
            /\ kept => fn_out.params[Len(fn_out.params)] = PyInt(conv.n)
            /\ y \in {PyInt(1850), PyInt(1900), PyInt(2100), PyInt(2150), PyStr(Str_abc)}
                    => ~has_year
            /\ y \in {PyInt(2023), PyStr(Str_2023)} =>
                    (has_year /\ fn_out.params[Len(fn_out.params)] = PyInt(2023))

\* the boundary value 1900 was dropped while the department condition was kept
C8_Witness ==
    /\ BuiltQuery
    /\ fn_in.metadata = [department |-> PyStr(Str_cse), year |-> PyInt(1900)]
    /\ fn_out.sql = <<BaseQuery, " AND ", "department ILIKE %s", OrderBy>>

(* C9 - stage order (Spec): the external calls of a request are a prefix of    *)
(* OCR, model, upload, URL lookup, insert; the fallback runs between the        *)
(* model call and the upload; blank OCR text ends the request after the OCR     *)
(* call, a model error marker after the model call, a failed upload before      *)
(* the insert, and each of these, like a failed insert, with status 'Error'.    *)
C9_StagesInOrder ==
    /\ IsPrefix(calls, StageCalls)
    /\ pc = "llm" => calls = <<"ocr">>
    /\ pc = "fallback" => (calls = <<"ocr", "llm">> /\ metadata = llm_meta)
    /\ pc \in {"upload", "insert"} => "year" \in DOMAIN metadata
    /\ pc = "upload" => calls = <<"ocr", "llm">>
    /\ pc = "insert" => calls = <<"ocr", "llm", "upload", "get_public_url">>
    /\ (Returned /\ calls # <<>>) =>
        /\ AllWhitespace(raw_text) =>
                (calls = <<"ocr">> /\ LastResult.status = "Error")
        /\ "error" \in DOMAIN llm_meta =>
                (calls = <<"ocr", "llm">> /\ LastResult.status = "Error")
        /\ ("upload" \in Range(calls) /\ ~Truthy(file_url)) =>
                ("insert" \notin Range(calls) /\ rows = <<>> /\ LastResult.status = "Error")
        /\ (calls = StageCalls /\ rows = <<>>) => LastResult.status = "Error"

\* whitespace-only OCR text ended a request after the OCR call alone
C9_Witness ==
    /\ Returned
    /\ raw_text # <<>>
    /\ AllWhitespace(raw_text)
    /\ calls = <<"ocr">>
    /\ LastResult.status = "Error"

(* C10 - the claim as stated (Spec): an error response carries the truncated    *)
(* text once text has been extracted and the metadata once metadata has been    *)
(* produced, at the model stage as at the upload and insert stages.             *)
C10_ErrorCarriesPartialOutput ==
    (Returned /\ LastResult.status = "Error") =>
        /\ top_text # <<>> =>
                ("raw_text" \in DOMAIN LastResult /\ LastResult.raw_text = top_text)
        /\ (DOMAIN metadata # {} /\ "error" \notin DOMAIN metadata) =>
                (HasMetadata(LastResult) /\ LastResult.metadata = metadata)

\* the object of the current request was stored and its URL handed out
UploadSucceeded == \E u \in uploads : u.req = idx /\ Truthy(u.url)

\* the insert call of the current request was made and wrote no row
InsertFailed == "insert" \in Range(calls) /\ \A r \in Range(rows) : r.req # idx

(* C11 - orphaned blob (SpecBatch): when the upload of a request succeeded      *)
(* and its insert failed, the request returns status 'Error', the insert is     *)
(* the last external call it made (no storage call follows the URL lookup),     *)
(* the object is still in the bucket under the request's key, and no row of     *)
(* the table carries its URL.                                                   *)
C11_OrphanedBlobAfterFailedInsert ==
    (UploadSucceeded /\ InsertFailed) =>
        /\ Returned
        /\ LastResult.status = "Error"
        /\ calls = StageCalls
        /\ strg_path \in blobs
        /\ \A r \in Range(rows) : r.data.file_url # PublicUrl(strg_path)

\* the second file of a batch lost its insert after the first one was stored
C11_Witness ==
    /\ Returned
    /\ idx = 2
    /\ UploadSucceeded
    /\ InsertFailed
    /\ Len(rows) = 1
    /\ Cardinality(blobs) = 2
    /\ LastResult.status = "Error"

\* process_user_query has returned or raised for the call fn_in
QueryRequestDone ==
    "fn" \in DOMAIN fn_in /\ fn_in.fn = "process_user_query" /\ fn_out # None

\* an external call of the current ingestion request failed
IngestionCallFailed ==
    \/ "ocr" \in Range(calls) /\ raw_text = <<>>
    \/ "error" \in DOMAIN llm_meta
    \/ "upload" \in Range(calls) /\ ~UploadSucceeded
    \/ InsertFailed

\* the endpoint or the database fails when process_user_query calls it
QueryCallFails ==
    \/ ModelFailed(fn_in.resp)
    \/ fn_in.outcome # "ok"

(* C12 - the claim as stated (SpecRequests): within one ingestion request      *)
(* no external call appears twice in the call log, and a request with a        *)
(* failed call has returned status 'Error' with that call as its last one;     *)
(* a process_user_query request whose model call or store lookup fails ends    *)
(* with a result dict that holds 'error'.                                      *)
C12_NoRetryTerminalError ==
    /\ \A i, j \in 1..Len(calls) : calls[i] = calls[j] => i = j
    /\ IngestionCallFailed =>
        /\ Returned
        /\ LastResult.status = "Error"
    /\ (QueryRequestDone /\ QueryCallFails) =>
        /\ ~fn_out.raised
        /\ "error" \in DOMAIN fn_out.value

\* the ingestion half of C12 alone
C12_IngestionNoRetry ==
    /\ \A i, j \in 1..Len(calls) : calls[i] = calls[j] => i = j
    /\ IngestionCallFailed => (Returned /\ LastResult.status = "Error")

\* what a request on file alone can return once its client exists and its
\* storage key is path: every outcome of the OCR, the endpoint, the bucket
\* and the table, composed from the stages in the order of the code
SoloResultsAt(file, path) ==
    LET texts == {extract_text_from_bytes(file.doc, o).value : o \in OcrOutcomes}
        after_upload(m, top) ==
            UNION {LET b == supabase_bucket(TRUE, path, uo) IN
                   IF NoUrl(b.url)
                   THEN {ErrorResultWith(file.name,
                            [text |-> "Failed to upload file to Supabase storage."], m, top)}
                   ELSE {SuccessResult(file.name, Put(m, "file_url", b.url), top),
                         ErrorResultWith(file.name,
                            [text |-> "Failed to insert metadata into Supabase database."],
                            Put(m, "file_url", b.url), top)}
                   : uo \in UploadOutcomes}
        after_text(t) ==
            IF NoText(t)
            THEN {ErrorResult(file.name, [text |-> "No text extracted from PDF."])}
            ELSE LET top == Slice(t, TOP_N_CHARACTERS) IN
                 UNION {LET r == extract_metadata_with_groq_llama3(top, file.name, resp).value IN
                        IF "error" \in DOMAIN r
                        THEN {ErrorResult(file.name, r["error"])}
                        ELSE after_upload(YearFallback(r, top), top)
                        : resp \in env.responses}
    IN  UNION {after_text(t) : t \in texts}

\* what a request on file alone can return, whatever key uuid4 hands out
SoloResults(file) ==
    {ErrorResult(file.name, [text |-> "Failed to initialize Supabase client: "])}
    \cup UNION {SoloResultsAt(file, StoragePath(k, file.name)) : k \in 1..Len(files)}

(* C13 - batch isolation (SpecBatch): the loop calls process_single_pdf for    *)
(* the files in their order, one result per file, whatever the earlier         *)
(* results were; no call raises; every result has status 'Success' or          *)
(* 'Error' and is one that the same file can produce when it is processed      *)
(* alone; after any result the next file, if there is one, is started.         *)
C13_BatchIsolation ==
    /\ pc # "raised"
    /\ Len(results) = (IF pc = "idle" THEN idx ELSE idx - 1)
    /\ \A i \in 1..Len(results) :
        /\ results[i].filename = files[i].name
        /\ results[i].status \in {"Success", "Error"}
        /\ results[i] \in SoloResults(files[i])
        /\ Cardinality({j \in 1..Len(rows) : rows[j].req = i}) <= 1
    /\ (pc = "idle" /\ idx < Len(files)) => ENABLED StartRequest
    /\ pc # "idle" => ENABLED Next

\* the first file failed and the second, a different one, was stored
C13_Witness ==
    /\ Returned
    /\ idx = 2
    /\ files[1] # files[2]
    /\ results[1].status = "Error"
    /\ results[2].status = "Success"
    /\ Len(rows) = 1
    /\ rows[1].req = 2

\* the metadata extractor of the current ingestion request returned a parsed object
IngestionParsed == "llm" \in Range(calls) /\ "error" \notin DOMAIN llm_meta

(* C14 - the claim as stated (SpecRequests): once the model's response has     *)
(* parsed to a JSON object, the extraction result holds the three keys         *)
(* department, subject and year, in extract_metadata_with_groq_llama3 as in    *)
(* extract_metadata_from_query (seen through process_user_query, which hands   *)
(* the extraction result back under 'metadata').                               *)
C14_AllKeysAfterParse ==
    /\ IngestionParsed => MetadataKeys \subseteq DOMAIN llm_meta
    /\ (QueryRequestDone /\ ~ModelFailed(fn_in.resp)) =>
        /\ ~fn_out.raised
        /\ "metadata" \in DOMAIN fn_out.value
        /\ MetadataKeys \subseteq DOMAIN fn_out.value.metadata

\* the ingestion half of C14 (SpecStandIn): the three keys are there, and a
\* key the model's object left out is there with the value None
C14_IngestionKeysDefaulted ==
    IngestionParsed =>
        /\ ~ModelFailed(fn_in)
        /\ MetadataKeys \subseteq DOMAIN llm_meta
        /\ \A k \in MetadataKeys :
                k \notin DOMAIN fn_in.content.value.d => llm_meta[k] = None

\* the year the regex fallback gives for the text handed to it
FallbackYear(text) ==
    IF YearTokens(text) # {} THEN PyInt(TokenValue(text, FirstYearToken(text))) ELSE None

\* the coercion of a model year of one of the types in kept_types is as C15 says
YearCoercedExcept(kept_types) ==
    IngestionParsed =>
        LET y == ModelYear(fn_in)
            out == llm_meta["year"]
        IN  /\ y = PyStr(Str_2019) => out = PyInt(2019)
            /\ y = PyStr(Str_abc) => out = None
            /\ (y.t = "str" /\ IntOfStr(y.s).ok) => out = PyInt(IntOfStr(y.s).n)
            /\ (y.t = "str" /\ ~IntOfStr(y.s).ok) => out = None
            /\ y.t = "int" => out = y
            /\ y.t \notin {"str", "int"} \cup kept_types => out = None
            /\ y.t \notin kept_types => out.t \in {"int", "None"}
            /\ (FallbackDone /\ out = None) => Get(metadata, "year") = FallbackYear(top_text)

(* C15 - the claim as stated (SpecStandIn): the extractor turns a string       *)
(* year into its integer value when it parses and into None when it does       *)
(* not, turns a year of any other type than int into None, so that the         *)
(* returned year is an integer or None; a year it turned into None is then     *)
(* replaced by the regex fallback as an absent one is.                         *)
C15_YearCoercion == YearCoercedExcept({})

\* C15 for every model year that is not a JSON boolean
C15_YearCoercionBoolAside == YearCoercedExcept({"bool"})

\* null, or an integer of four decimal digits
FourDigitOrNull(y) == y = None \/ (y.t = "int" /\ y.n >= 1000 /\ y.n <= 9999)

(* C16 - the claim as stated (SpecStandIn): the year of every row of the       *)
(* table is null or a four-digit integer, whatever the model returned.         *)
C16_PersistedYearFourDigits ==
    \A i \in 1..Len(rows) : FourDigitOrNull(rows[i].data.year)

\* the rows whose year came from the regex fallback, which matches 20dd only
C16_FallbackYearFourDigits ==
    \A i \in 1..Len(rows) :
        Get(llm_meta, "year") = None => FourDigitOrNull(rows[i].data.year)

\* the current request has truncated its OCR text (line 237)
Truncated ==
    pc \in {"llm", "fallback", "upload", "insert"} \/ (Returned /\ "llm" \in Range(calls))

(* C17 - truncation (Spec): the text handed on is the one prefix of the OCR    *)
(* text whose length is the smaller of the length of that text and             *)
(* TOP_N_CHARACTERS, so it is determined by the OCR text and is at most        *)
(* TOP_N_CHARACTERS long; truncating it again, or truncating the OCR text      *)
(* again, gives the same text.                                                 *)
C17_TruncationIdempotent ==
    Truncated =>
        /\ IsPrefix(top_text, raw_text)
        /\ Len(top_text) <= TOP_N_CHARACTERS
        /\ Len(top_text) = (IF Len(raw_text) <= TOP_N_CHARACTERS
                            THEN Len(raw_text) ELSE TOP_N_CHARACTERS)
        /\ \A i \in 1..Len(top_text) : top_text[i] = raw_text[i]
        /\ Slice(top_text, TOP_N_CHARACTERS) = top_text
        /\ Slice(raw_text, TOP_N_CHARACTERS) = top_text
        /\ (Returned /\ HasMetadata(LastResult)) => LastResult.raw_text = top_text

\* a text longer than TOP_N_CHARACTERS was cut and the request was stored
C17_Witness ==
    /\ Returned
    /\ LastResult.status = "Success"
    /\ Len(raw_text) > TOP_N_CHARACTERS
    /\ Len(top_text) = TOP_N_CHARACTERS
    /\ top_text # raw_text

\* one of the two text extractors has been applied to fn_in
ExtractorDone == "fn" \in DOMAIN fn_in /\ fn_out # None

(* C18 - extractor failures (SpecExtractors): extract_text_from_bytes and      *)
(* extract_text_with_tesseract return a string for every input and every       *)
(* behaviour of the renderer, of cv2 and of the OCR engine: the empty string   *)
(* whenever one of them raises, no page is rendered or the file does not       *)
(* exist, and the text of the page otherwise.                                  *)
C18_ExtractorNeverRaises ==
    ExtractorDone =>
        /\ ~fn_out.raised
        /\ fn_in.outcome # "ok" => fn_out.value = <<>>
        /\ ("exists" \in DOMAIN fn_in /\ ~fn_in.exists) => fn_out.value = <<>>
        /\ (fn_in.outcome = "ok" /\ ("exists" \in DOMAIN fn_in => fn_in.exists)) =>
                fn_out.value = fn_in.doc

\* the OCR engine raised inside extract_text_with_tesseract on a page with text
C18_Witness ==
    /\ ExtractorDone
    /\ fn_in.fn = "extract_text_with_tesseract"
    /\ fn_in.exists
    /\ fn_in.outcome = "ocr_raises"
    /\ fn_in.doc # <<>>
    /\ fn_out = Ok(<<>>)

\* the current request has its storage key and has not yet called upload
BeforeUpload == pc \in {"ocr", "llm", "fallback", "upload"}

\* the extension the key of a file name must end with
ExpectedExtension(name) ==
    CASE name = Name_q_PDF -> <<".", "p", "d", "f">>
      [] name = Name_q -> <<".", "p", "d", "f">>
      [] name = Name_q_a_Fd -> <<".", "f", "d">>

(* C19 - distinct storage keys (SpecRepeat): the key of a request, from the    *)
(* moment it is built to its upload, is the key of no object in the bucket      *)
(* and its identifier is the identifier of none; no two requests are handed     *)
(* the same public URL; this also when both requests carry the same bytes and   *)
(* the same file name. The key ends with the lower-cased extension of the file      *)
(* name, and with '.pdf' when the name has none.                                *)
C19_DistinctStorageKeys ==
    /\ BeforeUpload =>
        /\ strg_path \notin blobs
        /\ \A b \in blobs : b.id # strg_path.id
    /\ \A u1, u2 \in uploads : (Truthy(u1.url) /\ u1.url = u2.url) => u1.req = u2.req
    /\ \A b1, b2 \in blobs : b1.id = b2.id => b1 = b2
    /\ pc # "idle" => strg_path.ext = ExpectedExtension(CurrentFile.name)
    /\ \A b \in blobs : \E name \in RepeatNames : b.ext = ExpectedExtension(name)

\* the same bytes under the same name were stored twice, under two keys
C19_Witness ==
    /\ Returned
    /\ idx = 2
    /\ files[1] = files[2]
    /\ Cardinality(blobs) = 2
    /\ Cardinality({u.url : u \in uploads}) = 2
    /\ \A u \in uploads : Truthy(u.url)
    /\ \A b \in blobs : b.ext = <<".", "p", "d", "f">>

\* department, subject and year of a metadata dict or of a row
Extracted(m) == <<Get(m, "department"), Get(m, "subject"), Get(m, "year")>>

\* the dict without the key k
RemoveKey(m, k) == [x \in (DOMAIN m) \ {k} |-> m[x]]

\* the run that returned result got its storage client and went on to the OCR
ReachedOcr(result) ==
    ~("message" \in DOMAIN result
      /\ result.message.text = "Failed to initialize Supabase client: ")

RunQueryDone == "fn" \in DOMAIN fn_in /\ fn_in.fn = "run_query" /\ fn_out # None

(* C21 - absent secrets (SpecApp): with the storage URL or the storage key     *)
(* missing, every process_single_pdf call returns status 'Error' with no       *)
(* exception, no OCR, model, upload or insert call, no object stored and no    *)
(* row written; with the database password missing, run_query returns one      *)
(* error entry and opens no connection.                                        *)
C21_AbsentSecretsReported ==
    /\ (~env.supabase_URL \/ ~env.supabase_key) =>
        /\ pc = "idle"
        /\ calls = <<>>
        /\ uuid_seq = 0
        /\ blobs = {}
        /\ rows = <<>>
        /\ Len(results) = idx
        /\ \A i \in 1..Len(results) :
            /\ results[i].status = "Error"
            /\ results[i].filename = files[i].name
            /\ DOMAIN results[i] = {"filename", "status", "message"}
    /\ (RunQueryDone /\ ~env.db_password) =>
        /\ Len(fn_out.value) = 1
        /\ DOMAIN fn_out.value[1] = {"error"}
        /\ fn_out.opened = 0
        /\ fn_out.closed = 0

\* a file was refused for a missing storage key and run_query for a missing password
C21_Witness ==
    /\ env.supabase_URL
    /\ ~env.supabase_key
    /\ ~env.db_password
    /\ Returned
    /\ LastResult.status = "Error"
    /\ RunQueryDone
    /\ fn_in.outcome = "ok"
    /\ fn_out.opened = 0

\* a step of the session treats the table as an append-only log
RowsOnlyAppended ==
    /\ IsPrefix(rows, rows')
    /\ Len(rows') <= Len(rows) + 1
    /\ rows' # rows =>
        /\ pc = "insert"
        /\ rows'[Len(rows')].req = idx
        /\ \A i \in 1..Len(rows) : rows[i].req # idx
    /\ fn_out' # fn_out => rows' = rows

(* C22 - the store only grows (SpecApp): in every step of a session of         *)
(* uploads and query calls the rows already in the table stay as they are      *)
(* and in their place; a step adds at most one row, only from the insert of    *)
(* a request that has no row yet; a step of process_user_query or run_query    *)
(* leaves the table as it is.                                                  *)
C22_StoreOnlyGrows == [][RowsOnlyAppended]_vars

\* two uploads were inserted and a query call was made with rows in the table
C22_Witness ==
    /\ Len(rows) = 2
    /\ rows[1].req = 1
    /\ rows[2].req = 2
    /\ QueryRequestDone

\* the rows request i wrote
RowsOf(i) == {j \in 1..Len(rows) : rows[j].req = i}

(* C23 - success means inserted (SpecBatch): a request returned status         *)
(* 'Success' exactly when its insert wrote a row; such a request had non-      *)
(* blank OCR text, a model result without error marker and a non-empty URL     *)
(* from the upload of a stored object; the file_url of the returned            *)
(* metadata is that URL and is the file_url of the row; the department,        *)
(* subject and year of the row are those returned.                             *)
C23_SuccessIffInserted ==
    /\ \A i \in 1..Len(results) :
        /\ results[i].status = "Success" <=> RowsOf(i) # {}
        /\ results[i].status = "Success" =>
            /\ Cardinality(RowsOf(i)) = 1
            /\ HasMetadata(results[i])
            /\ "error" \notin DOMAIN results[i].metadata
            /\ Truthy(results[i].metadata["file_url"])
            /\ [req |-> i, url |-> results[i].metadata["file_url"]] \in uploads
            /\ results[i].raw_text # <<>>
            /\ ~AllWhitespace(results[i].raw_text)
            /\ \A j \in RowsOf(i) :
                /\ rows[j].data.file_url = results[i].metadata["file_url"]
                /\ Extracted(rows[j].data) = Extracted(results[i].metadata)
    /\ \A j \in 1..Len(rows) :
        rows[j].req <= Len(results) /\ results[rows[j].req].status = "Success"
    /\ (Returned /\ LastResult.status = "Success") =>
        /\ calls = StageCalls
        /\ ~NoText(raw_text)
        /\ "error" \notin DOMAIN llm_meta
        /\ file_url = LastResult.metadata["file_url"]
        /\ file_url = PublicUrl(strg_path)
        /\ strg_path \in blobs

\* of two files with text, one was stored and the other lost its insert
C23_Witness ==
    /\ Returned
    /\ idx = 2
    /\ results[1].status = "Error"
    /\ HasMetadata(results[1])
    /\ Truthy(Get(results[1].metadata, "file_url"))
    /\ results[2].status = "Success"
    /\ RowsOf(1) = {}
    /\ RowsOf(2) = {1}

\* the translator's endpoint fails or answers something that is not a JSON
\* object, which is what makes the translator return its error marker
TranslatorFails == ModelFailed(fn_in.resp)

(* C24 - the claim as stated (SpecQuery): a process_user_query call whose      *)
(* translator fails returns a dict with 'error' and an empty 'results' list;   *)
(* every call returns a dict, and one that carries 'error' has an empty        *)
(* 'results' list.                                                             *)
C24_ErrorMeansNoResults ==
    QueryRequestDone =>
        /\ ~fn_out.raised
        /\ "results" \in DOMAIN fn_out.value
        /\ "error" \in DOMAIN fn_out.value => fn_out.value.results = <<>>
        /\ TranslatorFails =>
            /\ "error" \in DOMAIN fn_out.value
            /\ "sql" \notin DOMAIN fn_out.value

(* C25 - connections are closed (SpecQuery): when run_query returns, the       *)
(* connections it closed are as many as those it opened, at most one: one       *)
(* opened and closed when connect succeeded, whether the query then ran,        *)
(* raised OperationalError or raised anything else; none opened and none        *)
(* closed when the password is missing or connect failed. It returns the        *)
(* fetched rows on success and a single error entry otherwise.                  *)
C25_ConnectionClosed ==
    RunQueryDone =>
        LET connected == env.db_password /\ fn_in.outcome # "connect_operational_error" IN
        /\ fn_out.closed = fn_out.opened
        /\ fn_out.opened = (IF connected THEN 1 ELSE 0)
        /\ (connected /\ fn_in.outcome = "ok") => fn_out.value = fn_in.fetched
        /\ ~(connected /\ fn_in.outcome = "ok") =>
            /\ Len(fn_out.value) = 1
            /\ DOMAIN fn_out.value[1] = {"error"}

\* the query raised after a successful connect and the connection was closed
C25_Witness ==
    /\ RunQueryDone
    /\ env.db_password
    /\ fn_in.outcome = "execute_raises"
    /\ fn_out.opened = 1
    /\ fn_out.closed = 1

\* the 20dd tokens of the OCR text that lie within the prefix handed on, and
\* those that lie entirely beyond it
TokensInPrefix == {i \in YearTokens(raw_text) : i + 3 <= TOP_N_CHARACTERS}
TokensBeyondPrefix == {i \in YearTokens(raw_text) : i > TOP_N_CHARACTERS}

\* the current request ran the fallback for a model result without year
FallbackRan == FallbackDone /\ Get(llm_meta, "year") = None

\* the cut of line 237 ends a longer run of word characters right after four
\* digits 20dd, which so become a standalone token of the prefix
CutMakesToken ==
    /\ Len(raw_text) > TOP_N_CHARACTERS
    /\ raw_text[TOP_N_CHARACTERS + 1] \in WordChars
    /\ StandaloneYearAt(Slice(raw_text, TOP_N_CHARACTERS), TOP_N_CHARACTERS - 3)

(* C26 - the claim as stated (SpecCut): the year the fallback selects is the   *)
(* value of a 20dd token of the OCR text that lies within the first            *)
(* TOP_N_CHARACTERS characters, never of one that lies entirely beyond them,   *)
(* and the year stays absent when the only 20dd tokens of the OCR text lie     *)
(* beyond that prefix.                                                         *)
C26_FallbackScansPrefix ==
    FallbackRan =>
        /\ Get(metadata, "year") # None =>
                \E i \in TokensInPrefix :
                    Get(metadata, "year") = PyInt(TokenValue(raw_text, i))
        /\ (YearTokens(raw_text) # {} /\ YearTokens(raw_text) = TokensBeyondPrefix) =>
                Get(metadata, "year") = None

(* C26, amended (SpecCut): the fallback selects the first 20dd token of the    *)
(* truncated text, which is a token of the OCR text within the prefix or the   *)
(* four digits that the cut leaves of a longer run; a token of the OCR text    *)
(* that lies entirely beyond the prefix is never selected, and the year        *)
(* stays absent when the truncated text holds no standalone 20dd token.        *)
C26_FallbackScansTruncatedText ==
    FallbackRan =>
        LET prefix == Slice(raw_text, TOP_N_CHARACTERS) IN
        /\ top_text = prefix
        /\ Get(metadata, "year") = FallbackYear(prefix)
        /\ YearTokens(prefix) = {} => Get(metadata, "year") = None
        /\ YearTokens(prefix) = TokensInPrefix
                \cup (IF CutMakesToken THEN {TOP_N_CHARACTERS - 3} ELSE {})
        /\ (TokensInPrefix = {} /\ ~CutMakesToken) => Get(metadata, "year") = None
        /\ \A i \in 1..Len(rows) : rows[i].data.year = Get(metadata, "year")

\* a text whose only token lies beyond the prefix was stored without a year
C26_Witness ==
    /\ Returned
    /\ LastResult.status = "Success"
    /\ Get(llm_meta, "year") = None
    /\ TokensBeyondPrefix # {}
    /\ YearTokens(raw_text) = TokensBeyondPrefix
    /\ ~CutMakesToken
    /\ rows[1].data.year = None

====
